---- MODULE Spec2Model ----
(***************************************************************************)
(* TalentScout hiring assistant (src/app.py).                              *)
(*                                                                         *)
(* The application is a Streamlit script: every user interaction reruns    *)
(* the script once (TalentScoutApp() is constructed, then run() is         *)
(* called), and st.rerun() asks for one more run without user input.  The  *)
(* state that survives between runs is st.session_state.  One action of    *)
(* this module is one run of the script.                                   *)
(*                                                                         *)
(* Python str values are sequences of one-character strings, so that       *)
(* lower(), strip(), split(), `in` and the e-mail pattern are computed.    *)
(* Python dict values whose keys are technology names are sequences of     *)
(* [key, value] entries in insertion order.  The timestamp of a            *)
(* conversation entry (datetime.now()) is not modelled.                    *)
(***************************************************************************)
EXTENDS Integers, Sequences, FiniteSets, TLC

(***************************************************************************)
(* Python str and list operations used by the source                       *)
(***************************************************************************)
UpperCase ==
    <<"A", "B", "C", "D", "E", "F", "G", "H", "I", "J", "K", "L", "M",
      "N", "O", "P", "Q", "R", "S", "T", "U", "V", "W", "X", "Y", "Z">>

LowerCase ==
    <<"a", "b", "c", "d", "e", "f", "g", "h", "i", "j", "k", "l", "m",
      "n", "o", "p", "q", "r", "s", "t", "u", "v", "w", "x", "y", "z">>

Letters == {UpperCase[i] : i \in 1..26} \cup {LowerCase[i] : i \in 1..26}

Digits == {"0", "1", "2", "3", "4", "5", "6", "7", "8", "9"}

Whitespace == {" ", "\t", "\n"}

\* bool(v) of a str or a list: non-empty.
truthy(v) == v # <<>>

\* all(values)
all(values) == \A i \in 1..Len(values) : truthy(values[i])

lower_char(c) ==
    IF \E i \in 1..26 : UpperCase[i] = c
    THEN LowerCase[CHOOSE i \in 1..26 : UpperCase[i] = c]
    ELSE c

\* str.lower()
lower(s) == [i \in 1..Len(s) |-> lower_char(s[i])]

\* sub in s
contains(sub, s) ==
    \E i \in 0..(Len(s) - Len(sub)) : SubSeq(s, i + 1, i + Len(sub)) = sub

RECURSIVE lstrip(_)
lstrip(s) ==
    IF s # <<>> /\ Head(s) \in Whitespace THEN lstrip(Tail(s)) ELSE s

RECURSIVE rstrip(_)
rstrip(s) ==
    IF s # <<>> /\ s[Len(s)] \in Whitespace
    THEN rstrip(SubSeq(s, 1, Len(s) - 1))
    ELSE s

\* str.strip()
strip(s) == rstrip(lstrip(s))

\* str.split(sep) for a one-character separator: always at least one segment.
RECURSIVE split(_, _)
split(s, sep) ==
    IF \E i \in 1..Len(s) : s[i] = sep
    THEN LET i == CHOOSE k \in 1..Len(s) :
                      s[k] = sep /\ \A j \in 1..(k - 1) : s[j] # sep
         IN  <<SubSeq(s, 1, i - 1)>> \o split(SubSeq(s, i + 1, Len(s)), sep)
    ELSE <<s>>

\* [f(x) for x in xs]: strip every segment.
strip_each(xs) == [i \in 1..Len(xs) |-> strip(xs[i])]

\* dict as a sequence of [key, value] entries in insertion order
dict_has(d, k) == \E i \in 1..Len(d) : d[i].key = k

dict_get(d, k) == d[CHOOSE i \in 1..Len(d) : d[i].key = k].value

dict_keys(d) == {d[i].key : i \in 1..Len(d)}

\* d[k] = v: an existing key keeps its place, a new key goes last.
dict_set(d, k, v) ==
    IF dict_has(d, k)
    THEN [i \in 1..Len(d) |-> IF d[i].key = k THEN [key |-> k, value |-> v] ELSE d[i]]
    ELSE Append(d, [key |-> k, value |-> v])

\* An object with named fields (st.session_state, the candidate_data dict).
has(obj, k) == k \in DOMAIN obj

get(obj, k, default) == IF has(obj, k) THEN obj[k] ELSE default

set(obj, k, v) ==
    [x \in DOMAIN obj \cup {k} |-> IF x = k THEN v ELSE obj[x]]

(***************************************************************************)
(* Config                                                                  *)
(***************************************************************************)
EXIT_KEYWORDS ==
    << <<"e", "x", "i", "t">>,
       <<"q", "u", "i", "t">>,
       <<"b", "y", "e">>,
       <<"g", "o", "o", "d", "b", "y", "e">>,
       <<"s", "t", "o", "p">> >>

GREETING_MESSAGE == "Welcome to TalentScout! ... Let's get started!"

THANK_YOU_MESSAGE ==
    "Thank you for your time! Your responses have been recorded. ... Good luck!"

(***************************************************************************)
(* The elements a run renders on the page: <<kind, text>>                  *)
(***************************************************************************)
st_title(body) == <<"title", body>>

st_markdown(body) == <<"markdown", body>>

st_info(body) == <<"info", body>>

st_success(body) == <<"success", body>>

st_warning(body) == <<"warning", body>>

st_error(body) == <<"error", body>>

\* The page shows the exception that ended the run.
st_exception(body) == <<"exception", body>>

st_button(label) == <<"button", label>>

st_form(key) == <<"form", key>>

st_chat_input(placeholder) == <<"chat_input", placeholder>>

(***************************************************************************)
(* ConversationManager                                                     *)
(***************************************************************************)
SessionKeys ==
    {"conversation_history", "candidate_data", "current_stage",
     "tech_questions", "current_tech_index", "tech_stack_list"}

InitialValue(key) ==
    CASE key = "conversation_history" -> <<>>
      [] key = "candidate_data" -> <<>>
      [] key = "current_stage" -> "greeting"
      [] key = "tech_questions" -> <<>>
      [] key = "current_tech_index" -> 0
      [] key = "tech_stack_list" -> <<>>

\* Every key that is missing gets its initial value; a key that is present is kept.
_initialize_session_state(state) ==
    [key \in DOMAIN state \cup SessionKeys |->
        IF has(state, key) THEN state[key] ELSE InitialValue(key)]

add_to_history(state, role, message) ==
    set(state, "conversation_history",
        Append(state.conversation_history, [role |-> role, message |-> message]))

(***************************************************************************)
(* CandidateDataCollector                                                  *)
(***************************************************************************)
LocalChars == Letters \cup Digits \cup {".", "_", "%", "+", "-"}

DomainChars == Letters \cup Digits \cup {".", "-"}

\* re.match(r'^[a-zA-Z0-9._%+-]+@[a-zA-Z0-9.-]+\.[a-zA-Z]{2,}$', email):
\* some split local @ domain . tld matches; `$` also matches before one
\* trailing newline.
_validate_email(email) ==
    LET n == Len(email)
        ends == IF n > 0 /\ email[n] = "\n" THEN {n - 1, n} ELSE {n}
    IN  \E e \in ends, at \in 1..n, dot \in 1..n :
            /\ at > 1
            /\ \A i \in 1..(at - 1) : email[i] \in LocalChars
            /\ email[at] = "@"
            /\ dot > at + 1
            /\ \A i \in (at + 1)..(dot - 1) : email[i] \in DomainChars
            /\ email[dot] = "."
            /\ e - dot >= 2
            /\ \A i \in (dot + 1)..e : email[i] \in Letters

\* The result and the st.error() messages it shows.
_validate_form(full_name, email, phone_number, years_experience, desired_positions, current_location, tech_stack) ==
    IF ~all(<<full_name, email, phone_number, current_location, tech_stack>>)
    THEN [valid |-> FALSE, errors |-> {}]
    ELSE IF ~truthy(desired_positions)
    THEN [valid |-> FALSE, errors |-> {}]
    ELSE IF ~_validate_email(email)
    THEN [valid |-> FALSE,
          errors |-> {st_error("Please enter a valid email address.")}]
    ELSE [valid |-> TRUE, errors |-> {}]

\* _save_candidate_data without strip(): segments kept as split, the empty
\* ones removed.
_save_candidate_data_unstripped(state, data) ==
    LET tech_list == SelectSeq(split(data.tech_stack, ","), truthy)
    IN  set(set(state, "candidate_data", data), "tech_stack_list", tech_list)

_save_candidate_data(state, data) ==
    LET tech_list == SelectSeq(strip_each(split(data.tech_stack, ",")), truthy)
    IN  set(set(state, "candidate_data", data), "tech_stack_list", tech_list)

(***************************************************************************)
(* TechQuestionGenerator                                                   *)
(***************************************************************************)
OPENAI_API_KEY == "OPENAI_API_KEY"

\* __init__: the key from the argument, else st.secrets (any error of the
\* secrets store reads as ""), else the environment.  None and "" are <<>>.
TechQuestionGenerator_init(api_key, secrets, environ) ==
    LET from_secrets ==
            IF truthy(api_key) THEN api_key
            ELSE IF secrets.raises THEN <<>>
            ELSE IF dict_has(secrets.entries, OPENAI_API_KEY)
            THEN dict_get(secrets.entries, OPENAI_API_KEY)
            ELSE <<>>
    IN  IF truthy(from_secrets) THEN from_secrets
        ELSE IF dict_has(environ, OPENAI_API_KEY)
        THEN dict_get(environ, OPENAI_API_KEY)
        ELSE <<>>

\* A Python value as json.loads returns it: [type, value].
py_list(items) == [type |-> "list", value |-> items]

py_str(s) == [type |-> "str", value |-> s]

py_other(type) == [type |-> type, value |-> <<>>]

\* len(v) and iteration over v, for a list and for a str (whose items are
\* its characters).
py_len(v) == Len(v.value)

py_iter(v) ==
    IF v.type = "str" THEN [i \in 1..Len(v.value) |-> <<v.value[i]>>] ELSE v.value

\* "..." with no quote and no backslash inside.
is_json_string(s) ==
    /\ Len(s) >= 2
    /\ s[1] = "\"" /\ s[Len(s)] = "\""
    /\ \A i \in 2..(Len(s) - 1) : s[i] \notin {"\"", "\\"}

unquote(s) == SubSeq(s, 2, Len(s) - 1)

\* The elements of a JSON array: plain strings, or the text is not JSON the
\* model reads.
json_array(elements) ==
    IF \A i \in 1..Len(elements) : is_json_string(elements[i])
    THEN [ok |-> TRUE,
          value |-> py_list([i \in 1..Len(elements) |-> unquote(elements[i])])]
    ELSE [ok |-> FALSE, value |-> py_other("JSONDecodeError")]

\* s is the text without surrounding whitespace, inner what its first and
\* last character enclose.
json_value(s, inner) ==
    IF Len(s) >= 2 /\ s[1] = "[" /\ s[Len(s)] = "]"
    THEN IF inner = <<>>
         THEN [ok |-> TRUE, value |-> py_list(<<>>)]
         ELSE json_array(strip_each(split(inner, ",")))
    ELSE IF is_json_string(s)
    THEN [ok |-> TRUE, value |-> py_str(unquote(s))]
    ELSE IF Len(s) >= 2 /\ s[1] = "{" /\ s[Len(s)] = "}" /\ inner = <<>>
    THEN [ok |-> TRUE, value |-> py_other("dict")]
    ELSE IF Len(s) >= 1 /\ \A i \in 1..Len(s) : s[i] \in Digits
    THEN [ok |-> TRUE, value |-> py_other("int")]
    ELSE IF s = <<"n", "u", "l", "l">>
    THEN [ok |-> TRUE, value |-> py_other("NoneType")]
    ELSE IF s \in { <<"t", "r", "u", "e">>, <<"f", "a", "l", "s", "e">> }
    THEN [ok |-> TRUE, value |-> py_other("bool")]
    ELSE [ok |-> FALSE, value |-> py_other("JSONDecodeError")]

\* json.loads(text) on the JSON texts the model's replies use: an array of
\* plain strings, a plain string, an empty object, an unsigned integer,
\* null, true, false.  Anything else is a JSONDecodeError (ok = FALSE).
json_loads(text) ==
    json_value(strip(text), strip(SubSeq(strip(text), 2, Len(strip(text)) - 1)))

fallback_questions ==
    << [key |-> <<"p", "y", "t", "h", "o", "n">>, value |-> <<
          <<"W", "h", "a", "t", " ", "a", "r", "e", " ", "t", "h", "e", " ", "k", "e", "y", " ", "d", "i", "f", "f", "e", "r", "e", "n", "c", "e", "s", " ", "b", "e", "t", "w", "e", "e", "n", " ", "l", "i", "s", "t", "s", " ", "a", "n", "d", " ", "t", "u", "p", "l", "e", "s", " ", "i", "n", " ", "P", "y", "t", "h", "o", "n", "?">>,
          <<"H", "o", "w", " ", "d", "o", "e", "s", " ", "P", "y", "t", "h", "o", "n", " ", "h", "a", "n", "d", "l", "e", " ", "m", "e", "m", "o", "r", "y", " ", "m", "a", "n", "a", "g", "e", "m", "e", "n", "t", "?">>,
          <<"E", "x", "p", "l", "a", "i", "n", " ", "t", "h", "e", " ", "c", "o", "n", "c", "e", "p", "t", " ", "o", "f", " ", "d", "e", "c", "o", "r", "a", "t", "o", "r", "s", " ", "i", "n", " ", "P", "y", "t", "h", "o", "n", ".">>,
          <<"W", "h", "a", "t", " ", "a", "r", "e", " ", "s", "o", "m", "e", " ", "c", "o", "m", "m", "o", "n", " ", "u", "s", "e", " ", "c", "a", "s", "e", "s", " ", "f", "o", "r", " ", "g", "e", "n", "e", "r", "a", "t", "o", "r", "s", "?">> >>],
       [key |-> <<"j", "a", "v", "a", "s", "c", "r", "i", "p", "t">>, value |-> <<
          <<"E", "x", "p", "l", "a", "i", "n", " ", "t", "h", "e", " ", "e", "v", "e", "n", "t", " ", "l", "o", "o", "p", " ", "i", "n", " ", "J", "a", "v", "a", "S", "c", "r", "i", "p", "t", ".">>,
          <<"W", "h", "a", "t", " ", "a", "r", "e", " ", "t", "h", "e", " ", "d", "i", "f", "f", "e", "r", "e", "n", "c", "e", "s", " ", "b", "e", "t", "w", "e", "e", "n", " ", "l", "e", "t", ",", " ", "c", "o", "n", "s", "t", ",", " ", "a", "n", "d", " ", "v", "a", "r", "?">>,
          <<"H", "o", "w", " ", "d", "o", "e", "s", " ", "p", "r", "o", "t", "o", "t", "y", "p", "a", "l", " ", "i", "n", "h", "e", "r", "i", "t", "a", "n", "c", "e", " ", "w", "o", "r", "k", " ", "i", "n", " ", "J", "a", "v", "a", "S", "c", "r", "i", "p", "t", "?">>,
          <<"W", "h", "a", "t", " ", "a", "r", "e", " ", "p", "r", "o", "m", "i", "s", "e", "s", " ", "a", "n", "d", " ", "h", "o", "w", " ", "d", "o", " ", "t", "h", "e", "y", " ", "w", "o", "r", "k", "?">> >>],
       [key |-> <<"r", "e", "a", "c", "t">>, value |-> <<
          <<"W", "h", "a", "t", " ", "i", "s", " ", "t", "h", "e", " ", "v", "i", "r", "t", "u", "a", "l", " ", "D", "O", "M", " ", "a", "n", "d", " ", "h", "o", "w", " ", "d", "o", "e", "s", " ", "i", "t", " ", "w", "o", "r", "k", "?">>,
          <<"E", "x", "p", "l", "a", "i", "n", " ", "t", "h", "e", " ", "c", "o", "m", "p", "o", "n", "e", "n", "t", " ", "l", "i", "f", "e", "c", "y", "c", "l", "e", " ", "m", "e", "t", "h", "o", "d", "s", ".">>,
          <<"W", "h", "a", "t", " ", "a", "r", "e", " ", "h", "o", "o", "k", "s", " ", "a", "n", "d", " ", "h", "o", "w", " ", "d", "o", " ", "t", "h", "e", "y", " ", "d", "i", "f", "f", "e", "r", " ", "f", "r", "o", "m", " ", "c", "l", "a", "s", "s", " ", "c", "o", "m", "p", "o", "n", "e", "n", "t", "s", "?">>,
          <<"H", "o", "w", " ", "w", "o", "u", "l", "d", " ", "y", "o", "u", " ", "o", "p", "t", "i", "m", "i", "z", "e", " ", "R", "e", "a", "c", "t", " ", "a", "p", "p", "l", "i", "c", "a", "t", "i", "o", "n", " ", "p", "e", "r", "f", "o", "r", "m", "a", "n", "c", "e", "?">> >>],
       [key |-> <<"n", "o", "d", "e", ".", "j", "s">>, value |-> <<
          <<"H", "o", "w", " ", "d", "o", "e", "s", " ", "N", "o", "d", "e", ".", "j", "s", " ", "h", "a", "n", "d", "l", "e", " ", "a", "s", "y", "n", "c", "h", "r", "o", "n", "o", "u", "s", " ", "o", "p", "e", "r", "a", "t", "i", "o", "n", "s", "?">>,
          <<"E", "x", "p", "l", "a", "i", "n", " ", "t", "h", "e", " ", "e", "v", "e", "n", "t", "-", "d", "r", "i", "v", "e", "n", " ", "a", "r", "c", "h", "i", "t", "e", "c", "t", "u", "r", "e", " ", "o", "f", " ", "N", "o", "d", "e", ".", "j", "s", ".">>,
          <<"W", "h", "a", "t", " ", "a", "r", "e", " ", "s", "t", "r", "e", "a", "m", "s", " ", "a", "n", "d", " ", "h", "o", "w", " ", "a", "r", "e", " ", "t", "h", "e", "y", " ", "u", "s", "e", "d", "?">>,
          <<"H", "o", "w", " ", "w", "o", "u", "l", "d", " ", "y", "o", "u", " ", "h", "a", "n", "d", "l", "e", " ", "m", "e", "m", "o", "r", "y", " ", "l", "e", "a", "k", "s", " ", "i", "n", " ", "N", "o", "d", "e", ".", "j", "s", "?">> >>] >>

\* _get_fallback_questions looking for the keys in the name as given.
_get_fallback_questions_as_given(technology) ==
    LET hits == {i \in 1..Len(fallback_questions) :
                    contains(fallback_questions[i].key, technology)}
    IN  IF hits # {}
        THEN py_list(fallback_questions[CHOOSE i \in hits : \A j \in hits : i <= j].value)
        ELSE py_list(<<
                <<"W", "h", "a", "t", " ", "e", "x", "p", "e", "r", "i", "e", "n", "c", "e", " ", "d", "o", " ", "y", "o", "u", " ", "h", "a", "v", "e", " ", "w", "i", "t", "h", " ">> \o technology \o <<"?">>,
                <<"D", "e", "s", "c", "r", "i", "b", "e", " ", "a", " ", "c", "h", "a", "l", "l", "e", "n", "g", "i", "n", "g", " ", "p", "r", "o", "j", "e", "c", "t", " ", "y", "o", "u", " ", "b", "u", "i", "l", "t", " ", "u", "s", "i", "n", "g", " ">> \o technology \o <<".">>,
                <<"W", "h", "a", "t", " ", "a", "r", "e", " ", "t", "h", "e", " ", "b", "e", "s", "t", " ", "p", "r", "a", "c", "t", "i", "c", "e", "s", " ", "f", "o", "r", " ", "w", "o", "r", "k", "i", "n", "g", " ", "w", "i", "t", "h", " ">> \o technology \o <<"?">>,
                <<"H", "o", "w", " ", "w", "o", "u", "l", "d", " ", "y", "o", "u", " ", "t", "r", "o", "u", "b", "l", "e", "s", "h", "o", "o", "t", " ", "p", "e", "r", "f", "o", "r", "m", "a", "n", "c", "e", " ", "i", "s", "s", "u", "e", "s", " ", "i", "n", " ">> \o technology \o <<"?">> >>)

\* The list of the first key of the table, in table order, that the
\* lower-cased name contains; else four questions built from the name.
_get_fallback_questions(technology) ==
    LET tech_lower == lower(technology)
        hits == {i \in 1..Len(fallback_questions) :
                    contains(fallback_questions[i].key, tech_lower)}
    IN  IF hits # {}
        THEN py_list(fallback_questions[CHOOSE i \in hits : \A j \in hits : i <= j].value)
        ELSE py_list(<<
                <<"W", "h", "a", "t", " ", "e", "x", "p", "e", "r", "i", "e", "n", "c", "e", " ", "d", "o", " ", "y", "o", "u", " ", "h", "a", "v", "e", " ", "w", "i", "t", "h", " ">> \o technology \o <<"?">>,
                <<"D", "e", "s", "c", "r", "i", "b", "e", " ", "a", " ", "c", "h", "a", "l", "l", "e", "n", "g", "i", "n", "g", " ", "p", "r", "o", "j", "e", "c", "t", " ", "y", "o", "u", " ", "b", "u", "i", "l", "t", " ", "u", "s", "i", "n", "g", " ">> \o technology \o <<".">>,
                <<"W", "h", "a", "t", " ", "a", "r", "e", " ", "t", "h", "e", " ", "b", "e", "s", "t", " ", "p", "r", "a", "c", "t", "i", "c", "e", "s", " ", "f", "o", "r", " ", "w", "o", "r", "k", "i", "n", "g", " ", "w", "i", "t", "h", " ">> \o technology \o <<"?">>,
                <<"H", "o", "w", " ", "w", "o", "u", "l", "d", " ", "y", "o", "u", " ", "t", "r", "o", "u", "b", "l", "e", "s", "h", "o", "o", "t", " ", "p", "e", "r", "f", "o", "r", "m", "a", "n", "c", "e", " ", "i", "s", "s", "u", "e", "s", " ", "i", "n", " ">> \o technology \o <<"?">> >>)

\* questions[:5]
first_five(v) ==
    [v EXCEPT !.value = SubSeq(@, 1, IF Len(@) < 5 THEN Len(@) ELSE 5)]

\* return questions[:5]: a list or a str is cut, any other value raises.
return_first_five(questions) ==
    IF questions.type \in {"list", "str"}
    THEN [raised |-> FALSE, value |-> first_five(questions)]
    ELSE [raised |-> TRUE, value |-> py_other("TypeError")]

\* Lines 196-199: the reply as JSON, else its non-blank lines.
parse_reply(questions_text, parsed) ==
    IF parsed.ok
    THEN parsed.value
    ELSE py_list(SelectSeq(strip_each(split(questions_text, "\n")), truthy))

\* The try block: response is what openai.ChatCompletion.create does, either
\* [raises |-> TRUE] or a reply text.  raised: an exception left the block
\* (the remote call failed, or questions[:5] on a value that has no slice).
try_generate(response) ==
    IF response.raises
    THEN [raised |-> TRUE, value |-> py_other("Exception")]
    ELSE return_first_five(parse_reply(strip(response.content),
                                       json_loads(strip(response.content))))

\* The except clause: st.warning and the fallback.
except_Exception(technology) ==
    [questions |-> _get_fallback_questions(technology),
     requested |-> TRUE, warning |-> TRUE, raised |-> FALSE]

\* try_except without the except clause: the exception leaves the method.
try_except_none(body, technology) ==
    IF body.raised
    THEN [questions |-> body.value,
          requested |-> TRUE, warning |-> FALSE, raised |-> TRUE]
    ELSE [questions |-> body.value,
          requested |-> TRUE, warning |-> FALSE, raised |-> FALSE]

\* What the method returns once the try block has ended as body says.
try_except(body, technology) ==
    IF body.raised
    THEN except_Exception(technology)
    ELSE [questions |-> body.value,
          requested |-> TRUE, warning |-> FALSE, raised |-> FALSE]

\* questions: the list returned; requested: a remote request was issued;
\* warning: st.warning was shown; raised: an exception left the method.
generate_questions_for_tech(api_key, technology, experience_level, response) ==
    IF ~truthy(api_key)
    THEN [questions |-> _get_fallback_questions(technology),
          requested |-> FALSE, warning |-> FALSE, raised |-> FALSE]
    ELSE try_except(try_generate(response), technology)

(***************************************************************************)
(* TalentScoutApp.  One run of the script works on a record w:             *)
(*   state      st.session_state                                           *)
(*   page       the elements the run has rendered                          *)
(*   rerun      st.rerun() was called                                      *)
(*   calls      the calls of generate_questions_for_tech made so far       *)
(*   requests   the remote requests issued since the last user input       *)
(* The user's input of a run is a record [widget, ...]: the widget used    *)
(* ("none" for a run started by st.rerun()) and what was entered.          *)
(***************************************************************************)
Title == st_title("TalentScout - AI Hiring Assistant")

ChatInput == st_chat_input("Type your message here...")

ExitInfo == st_info(THANK_YOU_MESSAGE)

UseFormsWarning ==
    st_warning("I'm here to help with your hiring process. Please use the forms above to provide information.")

Greeting == st_markdown(GREETING_MESSAGE)

BeginButton == st_button("Let's Begin!")

IntakeForm == st_form("candidate_info_form")

IntakeError == st_error("Please fill in all required fields correctly.")

NoTechError == st_error("No technologies specified for assessment.")

\* The form of the current technology (its key ends with the technology).
AssessmentForm == st_form("tech_assessment")

UnansweredError == st_error("Please answer all questions before submitting.")

OpenAIWarning == st_warning("Could not generate questions using OpenAI")

UncaughtException == st_exception("generate_questions_for_tech")

Completion ==
    {st_success("Assessment Complete!"), st_markdown(THANK_YOU_MESSAGE)}

NewSessionButton == st_button("Start New Session")

show(w, element) == [w EXCEPT !.page = @ \cup {element}]

show_all(w, elements) == [w EXCEPT !.page = @ \cup elements]

\* st.rerun()
st_rerun(w) == [w EXCEPT !.rerun = TRUE]

NoInput == [widget |-> "none"]

\* _check_exit_command that drops a message with no exit keyword: no entry
\* in the history, no notice.
_check_exit_command_drops(w, input) ==
    LET w0 == show(w, ChatInput)
        user_input == IF input.widget = "chat" THEN input.text ELSE <<>>
    IN  IF /\ truthy(user_input)
           /\ \E i \in 1..Len(EXIT_KEYWORDS) :
                    contains(EXIT_KEYWORDS[i], lower(user_input))
        THEN [exit |-> TRUE,
              w |-> show([w0 EXCEPT !.state = add_to_history(@, "user", user_input)],
                         ExitInfo)]
        ELSE [exit |-> FALSE, w |-> w0]

\* _check_exit_command looking for the keywords in user_input as typed.
_check_exit_command_as_typed(w, input) ==
    LET w0 == show(w, ChatInput)
        user_input == IF input.widget = "chat" THEN input.text ELSE <<>>
        w1 == [w0 EXCEPT !.state = add_to_history(@, "user", user_input)]
    IN  IF truthy(user_input)
        THEN IF \E i \in 1..Len(EXIT_KEYWORDS) :
                    contains(EXIT_KEYWORDS[i], user_input)
             THEN [exit |-> TRUE, w |-> show(w1, ExitInfo)]
             ELSE [exit |-> FALSE, w |-> show(w1, UseFormsWarning)]
        ELSE [exit |-> FALSE, w |-> w0]

_check_exit_command(w, input) ==
    LET w0 == show(w, ChatInput)
        user_input == IF input.widget = "chat" THEN input.text ELSE <<>>
        w1 == [w0 EXCEPT !.state = add_to_history(@, "user", user_input)]
    IN  IF truthy(user_input)
        THEN IF \E i \in 1..Len(EXIT_KEYWORDS) :
                    contains(EXIT_KEYWORDS[i], lower(user_input))
             THEN [exit |-> TRUE, w |-> show(w1, ExitInfo)]
             ELSE [exit |-> FALSE, w |-> show(w1, UseFormsWarning)]
        ELSE [exit |-> FALSE, w |-> w0]

_show_greeting(w, input) ==
    LET w1 == show_all(w, {Greeting, BeginButton})
    IN  IF input.widget = "begin"
        THEN st_rerun([w1 EXCEPT !.state = set(@, "current_stage", "data_collection")])
        ELSE w1

\* submitted_form with the data saved before the result of the validation
\* is looked at.
submitted_form_saves_first(w, data, checked) ==
    IF checked.valid
    THEN [result |-> TRUE, w |-> [w EXCEPT !.state = _save_candidate_data(@, data)]]
    ELSE [result |-> FALSE,
          w |-> show_all([w EXCEPT !.state = _save_candidate_data(@, data)],
                         checked.errors \cup {IntakeError})]

\* Lines 104-118: the form was submitted and _validate_form returned checked.
submitted_form(w, data, checked) ==
    IF checked.valid
    THEN [result |-> TRUE, w |-> [w EXCEPT !.state = _save_candidate_data(@, data)]]
    ELSE [result |-> FALSE, w |-> show_all(w, checked.errors \cup {IntakeError})]

\* Lines 107-115: the dict built from the widgets' values.
form_data(form) ==
    [full_name |-> form.full_name,
     email |-> form.email,
     phone_number |-> form.phone_number,
     years_experience |-> form.years_experience,
     desired_positions |-> form.desired_positions,
     current_location |-> form.current_location,
     tech_stack |-> form.tech_stack]

\* result: the value returned; w: the run after the call.
collect_basic_info(w, input) ==
    IF input.widget = "intake"
    THEN submitted_form(show(w, IntakeForm), form_data(input.form),
                        _validate_form(input.form.full_name, input.form.email,
                                       input.form.phone_number,
                                       input.form.years_experience,
                                       input.form.desired_positions,
                                       input.form.current_location,
                                       input.form.tech_stack))
    ELSE [result |-> FALSE, w |-> show(w, IntakeForm)]

\* after_collect with the stage set to the last one.
after_collect_to_completion(collected) ==
    IF collected.result
    THEN st_rerun([collected.w EXCEPT !.state =
            add_to_history(set(@, "current_stage", "completion"),
                           "system", "Candidate completed basic information form")])
    ELSE collected.w

\* Lines 291-294: collect_basic_info() has returned collected.result.
after_collect(collected) ==
    IF collected.result
    THEN st_rerun([collected.w EXCEPT !.state =
            add_to_history(set(@, "current_stage", "technical_assessment"),
                           "system", "Candidate completed basic information form")])
    ELSE collected.w

_collect_candidate_data(w, input) == after_collect(collect_basic_info(w, input))

\* Line 317, after generate_questions_for_tech returned made: the call is
\* logged, its warning shown, its questions stored.  An exception that left
\* the method ends the run.
store_questions(w, current_tech, response, made) ==
    LET call == [technology |-> current_tech, response |-> response,
                 requested |-> made.requested, warning |-> made.warning,
                 raised |-> made.raised, questions |-> made.questions]
        w1 == [w EXCEPT !.calls = Append(@, call),
                        !.requests = @ + (IF made.requested THEN 1 ELSE 0),
                        !.page = IF made.warning THEN @ \cup {OpenAIWarning} ELSE @]
    IN  IF made.raised
        THEN [raised |-> TRUE, w |-> show(w1, UncaughtException)]
        ELSE [raised |-> FALSE,
              w |-> [w1 EXCEPT !.state = set(@, "tech_questions",
                        dict_set(@.tech_questions, current_tech, made.questions))]]

\* questions_for that calls generate_questions_for_tech twice.
questions_for_twice(w, current_tech, api_key, response) ==
    IF ~dict_has(w.state.tech_questions, current_tech)
    THEN store_questions(
            store_questions(w, current_tech, response,
                generate_questions_for_tech(api_key, current_tech,
                    get(w.state.candidate_data, "years_experience", 0), response)).w,
            current_tech, response,
            generate_questions_for_tech(api_key, current_tech,
                get(w.state.candidate_data, "years_experience", 0), response))
    ELSE [raised |-> FALSE, w |-> w]

\* questions_for without the test for questions already stored.
questions_for_again(w, current_tech, api_key, response) ==
    store_questions(w, current_tech, response,
        generate_questions_for_tech(api_key, current_tech,
            get(w.state.candidate_data, "years_experience", 0), response))

\* Lines 314-317: the questions of current_tech are generated when the
\* mapping has no entry for it.
questions_for(w, current_tech, api_key, response) ==
    IF ~dict_has(w.state.tech_questions, current_tech)
    THEN store_questions(w, current_tech, response,
            generate_questions_for_tech(api_key, current_tech,
                get(w.state.candidate_data, "years_experience", 0), response))
    ELSE [raised |-> FALSE, w |-> w]

\* submit_answers that keeps nothing of candidate_data but tech_responses.
submit_answers_only(w, current_tech, questions, responses) ==
    IF all(responses)
    THEN LET tech_responses == get(w.state.candidate_data, "tech_responses", <<>>)
             stored == dict_set(tech_responses, current_tech,
                                [questions |-> questions, answers |-> responses])
             candidate_data == set(<<>>, "tech_responses", stored)
         IN  st_rerun([w EXCEPT !.state =
                 set(set(@, "candidate_data", candidate_data),
                     "current_tech_index", @.current_tech_index + 1)])
    ELSE show(w, UnansweredError)

\* submit_answers that stores the responses without the last one.
submit_answers_short(w, current_tech, questions, responses) ==
    IF all(responses)
    THEN LET tech_responses == get(w.state.candidate_data, "tech_responses", <<>>)
             stored == dict_set(tech_responses, current_tech,
                                [questions |-> questions,
                                 answers |-> SubSeq(responses, 1, Len(responses) - 1)])
             candidate_data == set(w.state.candidate_data, "tech_responses", stored)
         IN  st_rerun([w EXCEPT !.state =
                 set(set(@, "candidate_data", candidate_data),
                     "current_tech_index", @.current_tech_index + 1)])
    ELSE show(w, UnansweredError)

\* submit_answers that moves the cursor on by two.
submit_answers_skips(w, current_tech, questions, responses) ==
    IF all(responses)
    THEN LET tech_responses == get(w.state.candidate_data, "tech_responses", <<>>)
             stored == dict_set(tech_responses, current_tech,
                                [questions |-> questions, answers |-> responses])
             candidate_data == set(w.state.candidate_data, "tech_responses", stored)
         IN  st_rerun([w EXCEPT !.state =
                 set(set(@, "candidate_data", candidate_data),
                     "current_tech_index", @.current_tech_index + 2)])
    ELSE show(w, UnansweredError)

\* submit_answers with any(responses) in place of all(responses).
submit_answers_any(w, current_tech, questions, responses) ==
    IF \E i \in 1..Len(responses) : truthy(responses[i])
    THEN LET tech_responses == get(w.state.candidate_data, "tech_responses", <<>>)
             stored == dict_set(tech_responses, current_tech,
                                [questions |-> questions, answers |-> responses])
             candidate_data == set(w.state.candidate_data, "tech_responses", stored)
         IN  st_rerun([w EXCEPT !.state =
                 set(set(@, "candidate_data", candidate_data),
                     "current_tech_index", @.current_tech_index + 1)])
    ELSE show(w, UnansweredError)

\* Lines 337-351: the form was submitted with these responses.
submit_answers(w, current_tech, questions, responses) ==
    IF all(responses)
    THEN LET tech_responses == get(w.state.candidate_data, "tech_responses", <<>>)
             stored == dict_set(tech_responses, current_tech,
                                [questions |-> questions, answers |-> responses])
             candidate_data == set(w.state.candidate_data, "tech_responses", stored)
         IN  st_rerun([w EXCEPT !.state =
                 set(set(@, "candidate_data", candidate_data),
                     "current_tech_index", @.current_tech_index + 1)])
    ELSE show(w, UnansweredError)

\* Lines 319-351: the form of current_tech, and its submission if any.
assessment_form(w, input, current_tech) ==
    IF input.widget = "assessment"
    THEN submit_answers(show(w, AssessmentForm), current_tech,
                        dict_get(w.state.tech_questions, current_tech),
                        input.responses)
    ELSE show(w, AssessmentForm)

\* Lines 311-351, with the questions of current_tech ready or not.
assess(ready, input, current_tech) ==
    IF ready.raised THEN ready.w ELSE assessment_form(ready.w, input, current_tech)

\* _conduct_technical_assessment without the test for an empty stack.
_conduct_technical_assessment_unchecked(w, input, api_key, response) ==
    IF w.state.current_tech_index >= Len(w.state.tech_stack_list)
    THEN st_rerun([w EXCEPT !.state = set(@, "current_stage", "completion")])
    ELSE assess(questions_for(w, w.state.tech_stack_list[w.state.current_tech_index + 1],
                              api_key, response),
                input,
                w.state.tech_stack_list[w.state.current_tech_index + 1])

\* _conduct_technical_assessment that sets the stage at the end of the
\* stack without st.rerun().
_conduct_technical_assessment_waits(w, input, api_key, response) ==
    IF ~truthy(w.state.tech_stack_list)
    THEN show(w, NoTechError)
    ELSE IF w.state.current_tech_index >= Len(w.state.tech_stack_list)
    THEN [w EXCEPT !.state = set(@, "current_stage", "completion")]
    ELSE assess(questions_for(w, w.state.tech_stack_list[w.state.current_tech_index + 1],
                              api_key, response),
                input,
                w.state.tech_stack_list[w.state.current_tech_index + 1])

\* _conduct_technical_assessment with the end test one technology early.
_conduct_technical_assessment_early(w, input, api_key, response) ==
    IF ~truthy(w.state.tech_stack_list)
    THEN show(w, NoTechError)
    ELSE IF w.state.current_tech_index + 1 >= Len(w.state.tech_stack_list)
    THEN st_rerun([w EXCEPT !.state = set(@, "current_stage", "completion")])
    ELSE assess(questions_for(w, w.state.tech_stack_list[w.state.current_tech_index + 1],
                              api_key, response),
                input,
                w.state.tech_stack_list[w.state.current_tech_index + 1])

_conduct_technical_assessment(w, input, api_key, response) ==
    IF ~truthy(w.state.tech_stack_list)
    THEN show(w, NoTechError)
    ELSE IF w.state.current_tech_index >= Len(w.state.tech_stack_list)
    THEN st_rerun([w EXCEPT !.state = set(@, "current_stage", "completion")])
    ELSE assess(questions_for(w, w.state.tech_stack_list[w.state.current_tech_index + 1],
                              api_key, response),
                input,
                w.state.tech_stack_list[w.state.current_tech_index + 1])

\* _show_completion whose reset deletes every key but conversation_history.
_show_completion_keeps_history(w, input) ==
    IF input.widget = "reset"
    THEN st_rerun([w EXCEPT !.state = [key \in {"conversation_history"} |-> @[key]],
                            !.calls = <<>>,
                            !.page = @ \cup Completion \cup {NewSessionButton}])
    ELSE show_all(w, Completion \cup {NewSessionButton})

\* del st.session_state[key] for every key; the calls of the session that
\* ends are forgotten with it.
_show_completion(w, input) ==
    IF input.widget = "reset"
    THEN st_rerun([w EXCEPT !.state = <<>>, !.calls = <<>>,
                            !.page = @ \cup Completion \cup {NewSessionButton}])
    ELSE show_all(w, Completion \cup {NewSessionButton})

\* Lines 272-280: the stage handler, unless the exit command ended the run.
dispatch(checked, input, api_key, response) ==
    IF checked.exit THEN checked.w
    ELSE IF checked.w.state.current_stage = "greeting"
    THEN _show_greeting(checked.w, input)
    ELSE IF checked.w.state.current_stage = "data_collection"
    THEN _collect_candidate_data(checked.w, input)
    ELSE IF checked.w.state.current_stage = "technical_assessment"
    THEN _conduct_technical_assessment(checked.w, input, api_key, response)
    ELSE IF checked.w.state.current_stage = "completion"
    THEN _show_completion(checked.w, input)
    ELSE checked.w

run(w, input, api_key, response) ==
    dispatch(_check_exit_command(w, input), input, api_key, response)

\* Lines 388-390: app = TalentScoutApp(); app.run().  The run starts with an
\* empty page and no rerun asked for.
main(state, calls, requests, input, secrets, environ, response) ==
    run([state |-> _initialize_session_state(state),
         page |-> {Title}, rerun |-> FALSE,
         calls |-> calls, requests |-> requests],
        input, TechQuestionGenerator_init(<<>>, secrets, environ), response)

(***************************************************************************)
(* What the user and the environment can supply                            *)
(***************************************************************************)
\* The most chat messages of one session.
MaxChats == 2

\* The values a user enters in the widgets of the intake form.
FullNames == { <<>>, <<"A", "d", "a">> }

GoodEmails == { <<"a", "@", "b", ".", "c", "o">> }

BadEmails == { <<>>, <<"a", "@", "b">>, <<"n", "o", "t", "-", "a", "n", "-", "e", "m", "a", "i", "l">> }

Emails == GoodEmails \cup BadEmails

PhoneNumbers == { <<>>, <<"5", "5", "5">> }

YearsOfExperience == {0, 2}

DesiredPositions == { <<>>, << <<"Q", "A", " ", "E", "n", "g", "i", "n", "e", "e", "r">> >> }

Locations == { <<>>, <<" ">>, <<"N", "Y">> }

TechStacks == { <<>>, <<",">>, <<"P", "y", "t", "h", "o", "n">>, <<"P", "y", "t", "h", "o", "n", ",", " ", "R", "u", "s", "t", ",", " ", " ", ",", " ", "P", "y", "t", "h", "o", "n">> }

\* The fields of a form left empty or, for the e-mail, badly formed.
defects(form) ==
    {field \in {"full_name", "phone_number", "desired_positions",
                "current_location", "tech_stack"} : form[field] = <<>>}
    \cup (IF form.email \in BadEmails THEN {"email"} ELSE {})

\* The submissions of the intake form: every combination of the values
\* above with at most one such field.
IntakeForms ==
    {form \in [full_name : FullNames, email : Emails, phone_number : PhoneNumbers,
               years_experience : YearsOfExperience,
               desired_positions : DesiredPositions,
               current_location : Locations, tech_stack : TechStacks] :
        Cardinality(defects(form)) <= 1}

\* The text a user enters in one text area of the assessment form.
AnswerTexts == { <<>>, <<"o", "k">>, <<"n", "o">> }

\* The submissions of an assessment form of n questions: the same text in
\* every answer (two complete sheets and the empty one), or one answer
\* missing.
AnswerSheets(n) ==
    {responses \in [1..n -> AnswerTexts] :
        \/ \A i, j \in 1..n : responses[i] = responses[j]
        \/ /\ Cardinality({i \in 1..n : responses[i] = <<>>}) = 1
           /\ \A i \in 1..n : responses[i] \in {<<>>, <<"o", "k">>}}

ChatMessages == { <<"b", "y", "e">>, <<"I", " ", "n", "e", "e", "d", " ", "t", "o", " ", "E", "X", "I", "T", " ", "n", "o", "w">>, <<"h", "e", "l", "l", "o">> }

\* What openai.ChatCompletion.create does when it is called: it raises, or
\* it returns a reply with this text.
RemoteError == [raises |-> TRUE, content |-> <<>>]

Reply(text) == [raises |-> FALSE, content |-> text]

ReplyArray == Reply(<<"[", "\"", "Q", "1", "\"", ",", " ", "\"", "Q", "2", "\"", ",", " ", "\"", "Q", "3", "\"", ",", " ", "\"", "Q", "4", "\"", ",", " ", "\"", "Q", "5", "\"", ",", " ", "\"", "Q", "6", "\"", "]">>)

ReplyEmptyArray == Reply(<<"[", "]">>)

ReplyObject == Reply(<<"{", "}">>)

ReplyString == Reply(<<"\"", "a", "b", "\"">>)

ReplyLines == Reply(<<"Q", "1", "\n", "\n", " ", "Q", "2", " ">>)

ReplyBlank == Reply(<<" ", "\n">>)

Responses ==
    {RemoteError, ReplyArray, ReplyEmptyArray, ReplyObject, ReplyString,
     ReplyLines, ReplyBlank}

\* The credential configuration of the process: st.secrets (reading it
\* raises when there is no secrets file) and os.environ.
NoSecrets == [raises |-> TRUE, entries |-> <<>>]

Secrets(entries) == [raises |-> FALSE, entries |-> entries]

Configurations ==
    { [secrets |-> NoSecrets, environ |-> <<>>],
      [secrets |-> Secrets(<<>>),
       environ |-> <<[key |-> OPENAI_API_KEY, value |-> <<"s", "k", "-", "e", "n", "v">>]>>],
      [secrets |-> Secrets(<<[key |-> OPENAI_API_KEY, value |-> <<"s", "k", "-", "s", "e", "c", "r", "e", "t">>]>>),
       environ |-> <<[key |-> OPENAI_API_KEY, value |-> <<"s", "k", "-", "e", "n", "v">>]>>] }

(***************************************************************************)
(* State                                                                   *)
(***************************************************************************)
VARIABLES
    session_state,  \* st.session_state: the keys it holds and their values
    page,           \* the elements rendered by the last run of the script
    rerun,          \* the last run called st.rerun(): one more run is due
    secrets,        \* st.secrets
    environ,        \* os.environ
    calls,          \* the calls of generate_questions_for_tech of this session
    runs,           \* the runs of the script since the last user input
    requests,       \* the remote requests issued since the last user input
    last_input      \* the user input of the last run (NoInput: started by st.rerun())

vars ==
    <<session_state, page, rerun, secrets, environ, calls, runs, requests,
      last_input>>

conversation_history == get(session_state, "conversation_history", <<>>)

candidate_data == get(session_state, "candidate_data", <<>>)

\* "deleted": the key is not in st.session_state (between the reset and the
\* run that follows it).
current_stage == get(session_state, "current_stage", "deleted")

tech_questions == get(session_state, "tech_questions", <<>>)

current_tech_index == get(session_state, "current_tech_index", 0)

tech_stack_list == get(session_state, "tech_stack_list", <<>>)

tech_responses == get(candidate_data, "tech_responses", <<>>)

api_key == TechQuestionGenerator_init(<<>>, secrets, environ)

\* The text areas of the assessment form on the page: one per question of
\* the current technology.
form_questions ==
    py_iter(dict_get(tech_questions, tech_stack_list[current_tech_index + 1]))

\* What the remote service can do in the run that starts now.  Its reply is
\* read only by a run that calls it: _conduct_technical_assessment, with a
\* key configured, for a current technology that has no questions stored.
\* In any other run what the service would do is immaterial.
Remote ==
    IF /\ current_stage = "technical_assessment"
       /\ truthy(api_key)
       /\ current_tech_index < Len(tech_stack_list)
       /\ ~dict_has(tech_questions, tech_stack_list[current_tech_index + 1])
    THEN Responses
    ELSE {RemoteError}

chats == Cardinality({i \in 1..Len(conversation_history) :
                        conversation_history[i].role = "user"})

(***************************************************************************)
(* One run of the script                                                   *)
(***************************************************************************)
\* The run ends as w says.
Becomes(w, input) ==
    /\ session_state' = w.state
    /\ page' = w.page
    /\ rerun' = w.rerun
    /\ calls' = w.calls
    /\ requests' = w.requests
    /\ runs' = IF input.widget = "none" THEN runs + 1 ELSE 1
    /\ last_input' = input
    /\ UNCHANGED <<secrets, environ>>

Run(input, response) ==
    Becomes(main(session_state, calls,
                 IF input.widget = "none" THEN requests ELSE 0,
                 input, secrets, environ, response),
            input)

Started(w) ==
    /\ session_state = w.state
    /\ page = w.page
    /\ rerun = w.rerun
    /\ calls = w.calls
    /\ requests = w.requests
    /\ runs = 1
    /\ last_input = NoInput

\* The first run of a new session.
Init ==
    /\ \E configuration \in Configurations :
          /\ secrets = configuration.secrets
          /\ environ = configuration.environ
    /\ Started(main(<<>>, <<>>, 0, NoInput, secrets, environ, RemoteError))

\* The user presses "Let's Begin!".
LetsBegin ==
    /\ ~rerun
    /\ BeginButton \in page
    /\ \E response \in Remote : Run([widget |-> "begin"], response)

\* The user submits the intake form.
SubmitInformation ==
    /\ ~rerun
    /\ IntakeForm \in page
    /\ \E form \in IntakeForms, response \in Remote :
          Run([widget |-> "intake", form |-> form], response)

\* The user submits the assessment form of the current technology.
SubmitAnswers ==
    /\ ~rerun
    /\ AssessmentForm \in page
    /\ \E responses \in AnswerSheets(Len(form_questions)), response \in Remote :
          Run([widget |-> "assessment", responses |-> responses], response)

\* The user presses "Start New Session".
StartNewSession ==
    /\ ~rerun
    /\ NewSessionButton \in page
    /\ \E response \in Remote : Run([widget |-> "reset"], response)

\* The user sends a chat message.
ChatMessage ==
    /\ ~rerun
    /\ ChatInput \in page
    /\ chats < MaxChats
    /\ \E text \in ChatMessages, response \in Remote :
          Run([widget |-> "chat", text |-> text], response)

\* The run that st.rerun() asked for: no user input.
Rerun ==
    /\ rerun
    /\ \E response \in Remote : Run(NoInput, response)

Next ==
    \/ LetsBegin
    \/ SubmitInformation
    \/ SubmitAnswers
    \/ StartNewSession
    \/ ChatMessage
    \/ Rerun

Spec == Init /\ [][Next]_vars

(***************************************************************************)
(* The question generator on its own: one call of                          *)
(* generate_questions_for_tech on a generator constructed under some       *)
(* credential configuration, for some technology, experience and outcome   *)
(* of the remote call.  The call is logged in calls, its arguments in      *)
(* last_input.                                                             *)
(***************************************************************************)
TechnologyNames ==
    { <<"P", "y", "t", "h", "o", "n">>, <<"p", "y", "t", "h", "o", "n", "3">>, <<"C", "P", "Y", "T", "H", "O", "N">>, <<"J", "a", "v", "a", "S", "c", "r", "i", "p", "t">>, <<"J", "a", "v", "a">>,
      <<"R", "e", "a", "c", "t">>, <<"R", "e", "a", "c", "t", "J", "S">>, <<"N", "o", "d", "e", ".", "j", "s">>, <<"N", "O", "D", "E", ".", "J", "S">>, <<"N", "o", "d", "e", "j", "s">>,
      <<"R", "e", "a", "c", "t", " ", "a", "n", "d", " ", "J", "a", "v", "a", "S", "c", "r", "i", "p", "t">>, <<"n", "o", "d", "e", ".", "j", "s", "/", "p", "y", "t", "h", "o", "n">>, <<"R", "e", "a", "c", "t", " ", "o", "n", " ", "N", "o", "d", "e", ".", "j", "s">>,
      <<"R", "u", "s", "t">>, <<"G", "o">>, <<"C", "+", "+">> }

ExperienceLevels == {0, 2, 5}

GeneratorInit ==
    /\ \E configuration \in Configurations :
          /\ secrets = configuration.secrets
          /\ environ = configuration.environ
    /\ session_state = <<>>
    /\ page = {}
    /\ rerun = FALSE
    /\ calls = <<>>
    /\ runs = 0
    /\ requests = 0
    /\ last_input = NoInput

logged_call(technology, response, made) ==
    [technology |-> technology, response |-> response,
     requested |-> made.requested, warning |-> made.warning,
     raised |-> made.raised, questions |-> made.questions]

GenerateQuestions ==
    \E technology \in TechnologyNames, experience_level \in ExperienceLevels,
       response \in Responses :
        /\ last_input' = [widget |-> "generate", technology |-> technology,
                          experience_level |-> experience_level,
                          response |-> response]
        /\ calls' = << logged_call(technology, response,
                          generate_questions_for_tech(api_key, technology,
                                                      experience_level, response)) >>
        /\ UNCHANGED <<session_state, page, rerun, secrets, environ, runs, requests>>

GeneratorNext == GenerateQuestions

GeneratorSpec == GeneratorInit /\ [][GeneratorNext]_vars

(***************************************************************************)
(* Stage order                                                             *)
(***************************************************************************)
StageSuccessor ==
    { <<"greeting", "data_collection">>,
      <<"data_collection", "technical_assessment">>,
      <<"technical_assessment", "completion">> }

C1_Step ==
    \/ current_stage' = current_stage
    \/ <<current_stage, current_stage'>> \in StageSuccessor
    \/ /\ current_stage = "completion"
       /\ last_input'.widget = "reset"
       /\ session_state' = <<>>
    \/ /\ session_state = <<>>
       /\ last_input' = NoInput
       /\ current_stage' = "greeting"

\* C1: current_stage starts at greeting and every run leaves it as it is or
\* moves it one step along greeting -> data_collection ->
\* technical_assessment -> completion; no run moves it back or skips a
\* stage.  The one way back to greeting is the session reset (every key of
\* the session state deleted, then initialised again by the next run), and
\* the reset is taken only from completion.
C1_StageOrder == current_stage = "greeting" /\ [][C1_Step]_vars

\* A session was reset from completion and is at greeting again.
C1_Witness ==
    /\ current_stage = "greeting"
    /\ runs = 2
    /\ last_input = NoInput

(***************************************************************************)
(* The cursor over the tech stack                                          *)
(***************************************************************************)
\* The answers stored for technology: one per question, none empty.
answered_in_full(responses, technology) ==
    /\ dict_has(responses, technology)
    /\ LET entry == dict_get(responses, technology)
       IN  /\ Len(entry.answers) = py_len(entry.questions)
           /\ \A i \in 1..Len(entry.answers) : entry.answers[i] # <<>>

\* The cursor moves only by one, by a submission of the assessment form
\* that stores answers to every question of the technology under the
\* cursor (or it goes back to 0 with the reset).
C2_CursorStep ==
    current_tech_index' # current_tech_index =>
        \/ /\ current_stage = "technical_assessment"
           /\ current_stage' = "technical_assessment"
           /\ last_input'.widget = "assessment"
           /\ current_tech_index < Len(tech_stack_list)
           /\ current_tech_index' = current_tech_index + 1
           /\ answered_in_full(tech_responses', tech_stack_list[current_tech_index + 1])
        \/ session_state' = <<>>

\* The stage leaves technical_assessment only with the cursor at the end of
\* a non-empty tech stack, and that run leaves the cursor alone.
C2_CompletionStep ==
    (current_stage = "technical_assessment" /\ current_stage' # current_stage) =>
        /\ current_stage' = "completion"
        /\ current_tech_index = Len(tech_stack_list)
        /\ current_tech_index' = current_tech_index
        /\ tech_stack_list' = tech_stack_list
        /\ Len(tech_stack_list) >= 1

\* C2: the stage never changes from technical_assessment to completion
\* while current_tech_index is less than the length of tech_stack_list; the
\* cursor starts at 0 and is raised only by 1, only by a successful
\* submission for the technology under it, so completion of a stack of n
\* technologies (n = 3 in the model's longest stack) comes after exactly n
\* successful submissions.
C2_CompletionAfterAllTechnologies ==
    /\ current_tech_index = 0
    /\ [](current_stage = "completion" => current_tech_index = Len(tech_stack_list))
    /\ [][C2_CursorStep /\ C2_CompletionStep]_vars

\* Completion of a stack of three technologies.
C2_Witness ==
    /\ current_stage = "completion"
    /\ Len(tech_stack_list) = 3
    /\ current_tech_index = 3

(***************************************************************************)
(* Intake submissions                                                      *)
(***************************************************************************)
\* A form as the intake accepts it: every text field and the positions
\* non-empty, and an e-mail address of the form local@domain.tld.
passes_validation(form) ==
    /\ form.full_name # <<>>
    /\ form.phone_number # <<>>
    /\ form.current_location # <<>>
    /\ form.tech_stack # <<>>
    /\ form.desired_positions # <<>>
    /\ form.email \in GoodEmails

C3_SubmissionStep ==
    last_input'.widget = "intake" =>
        /\ current_stage = "data_collection"
        /\ IF passes_validation(last_input'.form)
           THEN /\ current_stage' = "technical_assessment"
                /\ IntakeError \notin page'
           ELSE /\ current_stage' = "data_collection"
                /\ candidate_data' = candidate_data
                /\ tech_stack_list' = tech_stack_list
                /\ IntakeError \in page'

C3_TransitionStep ==
    (current_stage = "data_collection" /\ current_stage' # current_stage) =>
        /\ current_stage' = "technical_assessment"
        /\ last_input'.widget = "intake"
        /\ passes_validation(last_input'.form)

\* C3: the stage leaves data_collection only for technical_assessment and
\* only in the run of an intake submission that passes validation; the run
\* of a rejected submission leaves current_stage at data_collection,
\* leaves candidate_data and tech_stack_list as they were, and shows the
\* validation error.
C3_IntakeValidation == [][C3_SubmissionStep /\ C3_TransitionStep]_vars

\* A submission rejected for its e-mail address: nothing was stored.
C3_Witness ==
    /\ last_input.widget = "intake"
    /\ last_input.form.email = <<"a", "@", "b">>
    /\ current_stage = "data_collection"
    /\ IntakeError \in page
    /\ candidate_data = <<>>
    /\ tech_stack_list = <<>>

(***************************************************************************)
(* Assessment submissions                                                  *)
(***************************************************************************)
C4_Step ==
    last_input'.widget = "assessment" =>
        /\ current_stage = "technical_assessment"
        /\ current_tech_index < Len(tech_stack_list)
        /\ LET technology == tech_stack_list[current_tech_index + 1]
               answers == last_input'.responses
           IN  IF \A i \in 1..Len(answers) : answers[i] # <<>>
               THEN /\ current_tech_index' = current_tech_index + 1
                    /\ current_stage' = "technical_assessment"
                    /\ dict_has(tech_responses', technology)
                    /\ dict_get(tech_responses', technology) =
                          [questions |-> dict_get(tech_questions, technology),
                           answers |-> answers]
               ELSE /\ current_tech_index' = current_tech_index
                    /\ current_stage' = current_stage
                    /\ candidate_data' = candidate_data
                    /\ UnansweredError \in page'

\* C4: in technical_assessment the run of a submission with a non-empty
\* answer to every question of the current technology raises
\* current_tech_index by exactly 1 and stores that technology's questions
\* and answers; the run of a submission with an empty answer leaves
\* current_tech_index, current_stage and candidate_data (tech_responses
\* included) unchanged and shows an error.
C4_AssessmentSubmission == [][C4_Step]_vars

\* The second technology's form submitted with an answer missing, after
\* the first technology's answers were stored.
C4_Witness ==
    /\ last_input.widget = "assessment"
    /\ \E i \in 1..Len(last_input.responses) : last_input.responses[i] = <<>>
    /\ \E i \in 1..Len(last_input.responses) : last_input.responses[i] # <<>>
    /\ UnansweredError \in page
    /\ current_tech_index = 1
    /\ Len(tech_responses) = 1

(***************************************************************************)
(* Generated questions                                                     *)
(***************************************************************************)
C5_OneCallEach ==
    /\ \A i, j \in 1..Len(calls) : calls[i].technology = calls[j].technology => i = j
    /\ dict_keys(tech_questions) = {calls[i].technology : i \in 1..Len(calls)}
    /\ \A i \in 1..Len(calls) :
          dict_get(tech_questions, calls[i].technology) = calls[i].questions

C5_KeepStep ==
    \A technology \in dict_keys(tech_questions) :
        \/ session_state' = <<>>
        \/ /\ dict_has(tech_questions', technology)
           /\ dict_get(tech_questions', technology) = dict_get(tech_questions, technology)

\* C5: within a session a question list stored in tech_questions is never
\* generated again nor overwritten: each technology name has at most one
\* call of generate_questions_for_tech, the stored list is what that call
\* returned, and no run (re-render, failed submission, chat input, a
\* repeated name in the stack) changes it until the reset.
C5_QuestionsGeneratedOnce == []C5_OneCallEach /\ [][C5_KeepStep]_vars

\* The cursor is on the second occurrence of a name in the stack, a
\* submission has failed there and a chat message was sent: two calls.
C5_Witness ==
    /\ current_stage = "technical_assessment"
    /\ current_tech_index = 2
    /\ tech_stack_list[3] = tech_stack_list[1]
    /\ UnansweredError \in page
    /\ chats >= 1
    /\ Len(calls) = 2

(***************************************************************************)
(* What generate_questions_for_tech returns                                *)
(***************************************************************************)
\* C6: every call of generate_questions_for_tech returns at least 1 and at
\* most 5 questions, whatever the technology and whatever the remote call
\* did (no credential, error, JSON array, other JSON, plain text, empty or
\* blank reply).
C6_OneToFiveQuestions ==
    \A i \in 1..Len(calls) :
        /\ py_len(calls[i].questions) >= 1
        /\ py_len(calls[i].questions) <= 5

(***************************************************************************)
(* Errors and the way on                                                   *)
(***************************************************************************)
\* A user action other than a chat message that moves the session on: the
\* stage or the cursor changes, or the session is reset.
C7_Progress ==
    /\ LetsBegin \/ SubmitInformation \/ SubmitAnswers \/ StartNewSession
    /\ \/ session_state' = <<>>
       \/ <<current_stage, current_tech_index>>' # <<current_stage, current_tech_index>>

\* C7: no error is a dead end: whenever a run has rendered the page of the
\* current stage (no rerun pending, no closing message), the user has an
\* action that moves the session on towards completion or a fresh session.
C7_NoDeadEnd ==
    (~rerun /\ ExitInfo \notin page) => ENABLED C7_Progress

C8_Step ==
    (current_stage = "technical_assessment" /\ tech_stack_list = <<>>) =>
        /\ current_stage' = "technical_assessment"
        /\ tech_stack_list' = <<>>
        /\ current_tech_index' = 0
        /\ IF last_input'.widget = "chat" /\ ExitInfo \in page'
           THEN NoTechError \notin page'
           ELSE NoTechError \in page' /\ AssessmentForm \notin page'

\* C8: with an empty tech_stack_list every run of the technical_assessment
\* handler shows the "no technologies" error and the stage never becomes
\* completion, although current_tech_index (0) equals the length of the
\* stack (0).  (A run ended by an exit keyword does not reach the handler.)
C8_EmptyStackNeverCompletes ==
    /\ [](current_stage = "technical_assessment" /\ tech_stack_list = <<>>
            => current_tech_index = 0 /\ (rerun \/ ExitInfo \in page \/ NoTechError \in page))
    /\ [][C8_Step]_vars

\* The error is on the page again after a chat message re-ran the handler.
C8_Witness ==
    /\ current_stage = "technical_assessment"
    /\ tech_stack_list = <<>>
    /\ current_tech_index = Len(tech_stack_list)
    /\ last_input.widget = "chat"
    /\ NoTechError \in page

C9_Calls ==
    \A i \in 1..Len(calls) :
        /\ ~calls[i].raised
        /\ calls[i].questions.type \in {"list", "str"}
        /\ dict_has(tech_questions, calls[i].technology)
        /\ dict_get(tech_questions, calls[i].technology) = calls[i].questions
        /\ ~truthy(api_key) =>
              /\ ~calls[i].requested
              /\ ~calls[i].warning
              /\ calls[i].questions = _get_fallback_questions(calls[i].technology)
        /\ (truthy(api_key) /\ calls[i].response \in {RemoteError, ReplyObject}) =>
              /\ calls[i].warning
              /\ calls[i].questions = _get_fallback_questions(calls[i].technology)

C9_Step ==
    Len(calls') > Len(calls) =>
        /\ AssessmentForm \in page'
        /\ UncaughtException \notin page'
        /\ calls'[Len(calls')].warning <=> OpenAIWarning \in page'
        /\ ~truthy(api_key) => requests' = 0

\* C9: question generation never fails the flow: without a credential no
\* remote request is issued and the static fallback is returned; when the
\* remote call raises, or the handling of its reply raises, the static
\* fallback is returned and a warning is shown; no exception leaves the
\* method, and the run that generated goes on to render the assessment
\* form with the questions returned.
C9_GenerationNeverFails ==
    /\ [](C9_Calls /\ UncaughtException \notin page)
    /\ [][C9_Step]_vars

\* The remote call was made with a credential, its reply could not be
\* handled (a JSON object has no slice), and the form is on the page with
\* the warning.
C9_Witness ==
    /\ truthy(api_key)
    /\ Len(calls) = 1
    /\ calls[1].response = ReplyObject
    /\ calls[1].requested
    /\ OpenAIWarning \in page
    /\ AssessmentForm \in page

(***************************************************************************)
(* The exit command                                                        *)
(***************************************************************************)
\* The chat messages of the model that hold an exit keyword in some case.
C10_ExitMessages == { <<"b", "y", "e">>, <<"I", " ", "n", "e", "e", "d", " ", "t", "o", " ", "E", "X", "I", "T", " ", "n", "o", "w">> }

C10_Step ==
    (last_input'.widget = "chat" /\ last_input'.text \in C10_ExitMessages) =>
        /\ page' = {Title, ChatInput, ExitInfo}
        /\ ~rerun'
        /\ current_stage' = current_stage
        /\ candidate_data' = candidate_data
        /\ tech_stack_list' = tech_stack_list
        /\ tech_questions' = tech_questions
        /\ current_tech_index' = current_tech_index
        /\ calls' = calls
        /\ conversation_history' =
              Append(conversation_history,
                     [role |-> "user", message |-> last_input'.text])

\* C10: at every stage the run of a chat message that contains an exit
\* keyword in any letter case renders only the closing message (no stage
\* handler runs) and leaves current_stage, candidate_data, tech_stack_list,
\* tech_questions and current_tech_index unchanged; the conversation
\* history grows by the one user entry.
C10_ExitCommand == [][C10_Step]_vars

\* "I need to EXIT now" sent during the assessment of the second
\* technology.
C10_Witness ==
    /\ last_input.widget = "chat"
    /\ last_input.text = <<"I", " ", "n", "e", "e", "d", " ", "t", "o", " ", "E", "X", "I", "T", " ", "n", "o", "w">>
    /\ current_stage = "technical_assessment"
    /\ current_tech_index = 1
    /\ page = {Title, ChatInput, ExitInfo}

(***************************************************************************)
(* Other chat messages                                                     *)
(***************************************************************************)
\* The chat messages of the model that hold no exit keyword.
C11_OtherMessages == { <<"h", "e", "l", "l", "o">> }

C11_Step ==
    (last_input'.widget = "chat" /\ last_input'.text \in C11_OtherMessages) =>
        /\ UseFormsWarning \in page'
        /\ ExitInfo \notin page'
        /\ current_stage' = current_stage
        /\ candidate_data' = candidate_data
        /\ tech_stack_list' = tech_stack_list
        /\ tech_questions' = tech_questions
        /\ current_tech_index' = current_tech_index
        /\ calls' = calls
        /\ conversation_history' =
              Append(conversation_history,
                     [role |-> "user", message |-> last_input'.text])

\* C11: at every stage the run of a chat message with no exit keyword
\* appends the message to the conversation history as a user entry, shows
\* the "please use the forms" notice, and leaves current_stage,
\* candidate_data, tech_stack_list, tech_questions and current_tech_index
\* unchanged.
C11_OtherChatIgnored == [][C11_Step]_vars

\* "hello" sent during the assessment of the second technology: the form
\* is rendered again under the notice.
C11_Witness ==
    /\ last_input.widget = "chat"
    /\ last_input.text = <<"h", "e", "l", "l", "o">>
    /\ current_stage = "technical_assessment"
    /\ current_tech_index = 1
    /\ UseFormsWarning \in page
    /\ AssessmentForm \in page

(***************************************************************************)
(* The reset                                                               *)
(***************************************************************************)
\* The session state of a session that has just started.
C12_Fresh ==
    [conversation_history |-> <<>>, candidate_data |-> <<>>,
     tech_questions |-> <<>>, tech_stack_list |-> <<>>,
     current_tech_index |-> 0, current_stage |-> "greeting"]

C12_Step ==
    /\ last_input'.widget = "reset" =>
          /\ current_stage = "completion"
          /\ session_state' = <<>>
          /\ rerun'
    /\ session_state = <<>> =>
          /\ last_input' = NoInput
          /\ session_state' = C12_Fresh
          /\ page' = {Title, ChatInput, Greeting, BeginButton}
          /\ ~rerun'
          /\ calls' = <<>>

\* C12: "Start New Session" deletes every field of the session state and
\* the run it asks for sets each back to its initial value (empty
\* conversation_history, candidate_data, tech_questions, tech_stack_list,
\* current_tech_index 0, current_stage greeting): the state after the reset
\* is that of a session just started, whatever happened before.
C12_ResetRestoresInitialState ==
    /\ session_state = C12_Fresh
    /\ [](session_state = <<>> => rerun)
    /\ [][C12_Step]_vars

\* The greeting after a reset of a session that had chat messages and a
\* stored profile.
C12_Witness ==
    /\ session_state = C12_Fresh
    /\ page = {Title, ChatInput, Greeting, BeginButton}
    /\ runs = 2
    /\ calls = <<>>

(***************************************************************************)
(* The candidate profile                                                   *)
(***************************************************************************)
C13_IntakeFields ==
    {"full_name", "email", "phone_number", "years_experience",
     "desired_positions", "current_location", "tech_stack"}

\* The profile is written by a successful intake submission and by nothing
\* else; once written, its intake fields and tech_stack_list stay as they
\* are until the reset.
C13_WrittenOnce ==
    /\ (candidate_data = <<>> /\ candidate_data' # <<>>) =>
          /\ last_input'.widget = "intake"
          /\ \A field \in C13_IntakeFields : candidate_data'[field] = last_input'.form[field]
          /\ ~has(candidate_data', "tech_responses")
    /\ (candidate_data # <<>> /\ session_state' # <<>>) =>
          /\ \A field \in C13_IntakeFields :
                /\ has(candidate_data', field)
                /\ candidate_data'[field] = candidate_data[field]
          /\ tech_stack_list' = tech_stack_list

\* tech_responses changes only by a new entry after those it has.
C13_EntryAdded ==
    tech_responses' # tech_responses /\ session_state' # <<>> =>
        /\ Len(tech_responses') = Len(tech_responses) + 1
        /\ SubSeq(tech_responses', 1, Len(tech_responses)) = tech_responses

\* tech_responses changes only in the run of an assessment submission,
\* which writes the entry of the current technology: a new entry, or the
\* entry replaced when the name was assessed before.
C13_EntryWritten ==
    tech_responses' # tech_responses /\ session_state' # <<>> =>
        /\ last_input'.widget = "assessment"
        /\ tech_responses' =
              dict_set(tech_responses, tech_stack_list[current_tech_index + 1],
                       [questions |-> dict_get(tech_questions,
                                               tech_stack_list[current_tech_index + 1]),
                        answers |-> last_input'.responses])

\* C13 as stated: the profile is written once per session, at the
\* successful intake submission; afterwards no run changes an intake field
\* or tech_stack_list until the reset, and the only later change is the
\* addition of entries to tech_responses.
C13_ProfileWrittenOnce == [][C13_WrittenOnce /\ C13_EntryAdded]_vars

\* C13 amended: the profile is written once per session, at the
\* successful intake submission; afterwards no run changes an intake field
\* or tech_stack_list until the reset, and the only later change is the
\* write of the current technology's entry of tech_responses by a complete
\* assessment submission, which adds the entry or, when the name occurs
\* again in the stack, replaces it.
C13_ProfileFrame == [][C13_WrittenOnce /\ C13_EntryWritten]_vars

\* The third technology of the stack has the name of the first and its
\* answers have been stored: two entries for three submissions.
C13_Witness ==
    /\ current_tech_index = 3
    /\ tech_stack_list[3] = tech_stack_list[1]
    /\ Len(tech_responses) = 2
    /\ last_input.widget = "assessment"
    /\ dict_get(tech_responses, tech_stack_list[3]).answers = last_input.responses
    /\ \A field \in C13_IntakeFields : has(candidate_data, field)

(***************************************************************************)
(* The stored answers                                                      *)
(***************************************************************************)
\* The technologies assessed so far: the names at the positions of the
\* stack below the cursor.
C14_Assessed ==
    {tech_stack_list[i] : i \in {j \in 1..Len(tech_stack_list) : j <= current_tech_index}}

\* The position at which a name first occurs in the stack.
C14_First(technology) ==
    CHOOSE i \in 1..Len(tech_stack_list) :
        /\ tech_stack_list[i] = technology
        /\ \A j \in 1..(i - 1) : tech_stack_list[j] # technology

\* C14: in every reachable state each entry of tech_responses has as many
\* answers as questions and is keyed by a technology name of the stack;
\* the keys of tech_responses are exactly the names at the stack positions
\* below current_tech_index, one entry per name, in the order in which the
\* names were first assessed.
C14_ResponsesMatchCursor ==
    /\ \A i \in 1..Len(tech_responses) :
          /\ py_len(tech_responses[i].value.questions) =
                Len(tech_responses[i].value.answers)
          /\ tech_responses[i].value.questions =
                dict_get(tech_questions, tech_responses[i].key)
          /\ \E j \in 1..Len(tech_stack_list) : tech_stack_list[j] = tech_responses[i].key
    /\ dict_keys(tech_responses) = C14_Assessed
    /\ \A i, j \in 1..Len(tech_responses) :
          i < j => C14_First(tech_responses[i].key) < C14_First(tech_responses[j].key)

\* A stack of three names assessed to the end: the entries of the first
\* two names in that order, the first with four answers.
C14_Witness ==
    /\ current_stage = "completion"
    /\ Len(tech_stack_list) = 3
    /\ Len(tech_responses) = 2
    /\ tech_responses[1].key = tech_stack_list[1]
    /\ tech_responses[2].key = tech_stack_list[2]
    /\ Len(tech_responses[1].value.answers) = 4

(***************************************************************************)
(* Intake validation                                                       *)
(***************************************************************************)
\* Empty or whitespace only.
C15_Blank(text) == \A i \in 1..Len(text) : text[i] \in Whitespace

\* The form as the intake validation is described: no text field empty or
\* blank, a position chosen, an e-mail address of the form local@domain.tld.
C15_Valid(form) ==
    /\ ~C15_Blank(form.full_name)
    /\ ~C15_Blank(form.email)
    /\ ~C15_Blank(form.phone_number)
    /\ ~C15_Blank(form.current_location)
    /\ ~C15_Blank(form.tech_stack)
    /\ form.desired_positions # <<>>
    /\ form.email \in GoodEmails

\* C15: the validation of an intake submission fails whenever full_name,
\* email, phone_number, current_location or the raw tech_stack is empty or
\* whitespace only, whenever desired_positions is empty, and whenever the
\* e-mail does not match local@domain.tld; it succeeds only when none of
\* these holds.  (A submission is accepted iff its run shows no validation
\* error.)
C15_ValidateIntake ==
    last_input.widget = "intake" =>
        ((IntakeError \notin page) <=> C15_Valid(last_input.form))

(***************************************************************************)
(* From the last submission to completion                                  *)
(***************************************************************************)
\* The run of a complete submission for the last technology asks for a
\* rerun with the cursor at the end; the rerun sets the stage and asks for
\* another, which renders the completion page.  No user action is enabled
\* while a rerun is pending.
C16_Step ==
    /\ ( /\ last_input'.widget = "assessment"
         /\ \A i \in 1..Len(last_input'.responses) : last_input'.responses[i] # <<>>
         /\ current_tech_index + 1 = Len(tech_stack_list) ) =>
          /\ current_tech_index' = Len(tech_stack_list')
          /\ current_stage' = "technical_assessment"
          /\ rerun'
    /\ ( /\ current_stage = "technical_assessment"
         /\ tech_stack_list # <<>>
         /\ current_tech_index = Len(tech_stack_list) ) =>
          /\ rerun
          /\ last_input' = NoInput
          /\ current_stage' = "completion"
          /\ rerun'
    /\ (current_stage = "completion" /\ rerun) =>
          /\ last_input' = NoInput
          /\ current_stage' = "completion"
          /\ ~rerun'
          /\ NewSessionButton \in page'

C16_AtCompletion ==
    current_stage = "completion" =>
        /\ tech_stack_list # <<>>
        /\ current_tech_index = Len(tech_stack_list)
        /\ \A i \in 1..Len(tech_stack_list) :
              /\ dict_has(tech_responses, tech_stack_list[i])
              /\ dict_has(tech_questions, tech_stack_list[i])
              /\ Len(dict_get(tech_responses, tech_stack_list[i]).answers) =
                    py_len(dict_get(tech_questions, tech_stack_list[i]))
        /\ (~truthy(api_key) /\ tech_stack_list = << <<"P", "y", "t", "h", "o", "n">> >>) =>
              /\ dict_get(tech_questions, <<"P", "y", "t", "h", "o", "n">>) = py_list(fallback_questions[1].value)
              /\ current_tech_index = 1
              /\ Len(dict_get(tech_responses, <<"P", "y", "t", "h", "o", "n">>).answers) = 4

\* C16: for a non-empty stack of n technologies, the complete submission
\* for the n-th technology leads to completion with no further user
\* action (only the reruns the code itself asks for follow), and at
\* completion tech_responses holds for every technology of the stack as
\* many answers as it has questions; with no credential and the stack
\* "Python" these are the 4 fixed Python questions, cursor 1, 4 answers.
C16_CompleteAnswersReachCompletion ==
    /\ [](C16_AtCompletion /\ (rerun => ~ENABLED (LetsBegin \/ SubmitInformation \/ SubmitAnswers \/ StartNewSession \/ ChatMessage)))
    /\ [][C16_Step]_vars

\* The scenario: no credential, stack "Python", 2 years of experience;
\* the completion page two reruns after the submission of 4 answers.
C16_Witness ==
    /\ ~truthy(api_key)
    /\ tech_stack_list = << <<"P", "y", "t", "h", "o", "n">> >>
    /\ candidate_data.years_experience = 2
    /\ current_stage = "completion"
    /\ ~rerun
    /\ runs = 3
    /\ current_tech_index = 1
    /\ Len(dict_get(tech_responses, <<"P", "y", "t", "h", "o", "n">>).answers) = 4
    /\ py_len(dict_get(tech_questions, <<"P", "y", "t", "h", "o", "n">>)) = 4

(***************************************************************************)
(* Runs and remote requests per user interaction                           *)
(***************************************************************************)
\* runs counts the runs of the script since the last user interaction
\* (that of the interaction included), requests the remote requests they
\* issued.

\* C17 as stated: one user interaction makes exactly one pass through the
\* stage dispatch, and at most one remote text-generation request.
C17_OnePassOneCall == runs = 1 /\ requests <= 1

C17_Counts ==
    /\ runs \in 1..3
    /\ requests <= 1
    /\ rerun => runs <= 2
    /\ runs = 3 => current_stage = "completion"

C17_Step ==
    /\ last_input'.widget # "none" =>
          /\ runs' = 1
          /\ requests' = 0
          /\ rerun' <=>
                \/ last_input'.widget \in {"begin", "reset"}
                \/ last_input'.widget = "intake" /\ current_stage' = "technical_assessment"
                \/ last_input'.widget = "assessment" /\ current_tech_index' = current_tech_index + 1
    /\ last_input'.widget = "none" =>
          /\ rerun
          /\ runs' = runs + 1
          /\ rerun' <=> (current_stage = "technical_assessment" /\ current_stage' = "completion")

\* C17 amended: one user interaction makes one pass through the stage
\* dispatch and one more for each st.rerun() a pass asks for: a rejected
\* submission or a chat message 1 pass; "Let's Begin!", an accepted
\* intake, a complete assessment submission and the reset 2 passes; the
\* complete submission for the last technology 3.  All passes of one
\* interaction together issue at most one remote request, and never in
\* the first pass.
C17_PassesPerInteraction == []C17_Counts /\ [][C17_Step]_vars

\* The second pass after the answers of the first technology were stored
\* has requested the questions of the second.
C17_Witness ==
    /\ runs = 2
    /\ requests = 1
    /\ ~rerun
    /\ current_tech_index = 1
    /\ Len(calls) = 2
    /\ AssessmentForm \in page

(***************************************************************************)
(* The derived tech stack                                                  *)
(***************************************************************************)
\* The raw tech_stack strings of the model split on commas, each segment
\* trimmed, the empty segments removed, order and duplicates kept.
C18_Segments(raw) ==
    CASE raw = <<",">> -> <<>>
      [] raw = <<"P", "y", "t", "h", "o", "n">> -> << <<"P", "y", "t", "h", "o", "n">> >>
      [] raw = <<"P", "y", "t", "h", "o", "n", ",", " ", "R", "u", "s", "t", ",", " ", " ", ",", " ", "P", "y", "t", "h", "o", "n">> -> << <<"P", "y", "t", "h", "o", "n">>, <<"R", "u", "s", "t">>, <<"P", "y", "t", "h", "o", "n">> >>

\* C18: for every accepted intake submission tech_stack_list is the raw
\* tech_stack string split on commas, each segment trimmed of surrounding
\* whitespace, empty segments removed, order and duplicates kept.
C18_TechStackDerived ==
    has(candidate_data, "tech_stack") =>
        /\ candidate_data.tech_stack \in TechStacks \ {<<>>}
        /\ tech_stack_list = C18_Segments(candidate_data.tech_stack)

\* The run of the accepted submission with "Python, Rust,  , Python".
C18_Witness ==
    /\ last_input.widget = "intake"
    /\ last_input.form.tech_stack = <<"P", "y", "t", "h", "o", "n", ",", " ", "R", "u", "s", "t", ",", " ", " ", ",", " ", "P", "y", "t", "h", "o", "n">>
    /\ candidate_data = last_input.form
    /\ tech_stack_list = << <<"P", "y", "t", "h", "o", "n">>, <<"R", "u", "s", "t">>, <<"P", "y", "t", "h", "o", "n">> >>

(***************************************************************************)
(* The fallback questions                                                  *)
(***************************************************************************)
\* The position in the table (python, javascript, react, node.js) of the
\* first key that the lower-cased name contains, 0 when there is none,
\* written out for the names of the model.
C19_Key(technology) ==
    CASE technology \in { <<"P", "y", "t", "h", "o", "n">>, <<"p", "y", "t", "h", "o", "n", "3">>, <<"C", "P", "Y", "T", "H", "O", "N">>, <<"n", "o", "d", "e", ".", "j", "s", "/", "p", "y", "t", "h", "o", "n">> } -> 1
      [] technology \in { <<"J", "a", "v", "a", "S", "c", "r", "i", "p", "t">>, <<"R", "e", "a", "c", "t", " ", "a", "n", "d", " ", "J", "a", "v", "a", "S", "c", "r", "i", "p", "t">> } -> 2
      [] technology \in { <<"R", "e", "a", "c", "t">>, <<"R", "e", "a", "c", "t", "J", "S">>, <<"R", "e", "a", "c", "t", " ", "o", "n", " ", "N", "o", "d", "e", ".", "j", "s">> } -> 3
      [] technology \in { <<"N", "o", "d", "e", ".", "j", "s">>, <<"N", "O", "D", "E", ".", "J", "S">> } -> 4
      [] OTHER -> 0

C19_Call(call) ==
    /\ ~call.requested
    /\ ~call.warning
    /\ call.questions.type = "list"
    /\ py_len(call.questions) = 4
    /\ IF C19_Key(call.technology) # 0
       THEN call.questions.value = fallback_questions[C19_Key(call.technology)].value
       ELSE /\ \A i \in 1..4 : contains(call.technology, call.questions.value[i])
            /\ \A i, j \in 1..4 : call.questions.value[i] = call.questions.value[j] => i = j
            /\ \A k \in 1..Len(fallback_questions) :
                  call.questions.value # fallback_questions[k].value

\* C19: with no credential configured the questions returned depend only
\* on the technology name (not on the experience, not on what the remote
\* service would reply; no request is made): the fixed 4 questions of the
\* first key in table order (python, javascript, react, node.js) that the
\* lower-cased name contains, else exactly 4 generic questions, each
\* containing the name as given.
C19_FallbackDeterministic ==
    ~truthy(api_key) => \A i \in 1..Len(calls) : C19_Call(calls[i])

\* Without a credential: "React and JavaScript" for 5 years, answered
\* with the JavaScript list although "React" comes first in the name.
C19_Witness ==
    /\ ~truthy(api_key)
    /\ Len(calls) = 1
    /\ calls[1].technology = <<"R", "e", "a", "c", "t", " ", "a", "n", "d", " ", "J", "a", "v", "a", "S", "c", "r", "i", "p", "t">>
    /\ last_input.experience_level = 5
    /\ calls[1].questions.value = fallback_questions[2].value

(***************************************************************************)
(* The session state, stage by stage                                       *)
(***************************************************************************)
\* C20: in every reachable state 0 <= current_tech_index <= the length of
\* tech_stack_list; in technical_assessment and completion candidate_data
\* holds a profile as the validation accepts it (every intake field
\* present and non-empty, a well-formed e-mail address); in greeting and
\* data_collection tech_stack_list, tech_questions and tech_responses are
\* empty and current_tech_index is 0.
C20_StateShape ==
    /\ current_tech_index >= 0
    /\ current_tech_index <= Len(tech_stack_list)
    /\ current_stage \in {"technical_assessment", "completion"} =>
          /\ \A field \in C13_IntakeFields : has(candidate_data, field)
          /\ passes_validation(candidate_data)
    /\ current_stage \in {"greeting", "data_collection"} =>
          /\ candidate_data = <<>>
          /\ tech_stack_list = <<>>
          /\ tech_questions = <<>>
          /\ tech_responses = <<>>
          /\ current_tech_index = 0

\* The cursor at its upper limit: the one technology of the stack has
\* been answered and the rerun that will set completion is pending.
C20_Witness ==
    /\ current_stage = "technical_assessment"
    /\ Len(tech_stack_list) = 1
    /\ current_tech_index = Len(tech_stack_list)
    /\ rerun
    /\ candidate_data.full_name = <<"A", "d", "a">>

====
